---- MODULE Spec2Model ----
(***************************************************************************)
(* Model of garage/contrib/ros/robots/sawyer.py: the Sawyer robot adapter. *)
(*                                                                         *)
(* Reals are fixed point: one unit is 1e-4 (rad, rad/s, N*m), so 0.02 is   *)
(* 200 and 3.0503 is 30503.  Joint "right_j<k>" is the integer k, which is *)
(* also int(j[-1]) of sawyer.py:200.  A Python dict is a function; where   *)
(* the code iterates a dict the iteration order is a sequence of keys.     *)
(* Every method is an operator that returns what the call returns or       *)
(* raises together with the hardware and service calls it issued; the      *)
(* action of the method applies that outcome to the state.                 *)
(***************************************************************************)
EXTENDS Integers, Sequences, FiniteSets

VARIABLES
    control_mode,       \* self._control_mode
    initial_joint_pos,  \* self._initial_joint_pos, as a sequence of <<joint, angle>>
    used_joints,        \* self._used_joints
    joint_limits,       \* self._joint_limits (the /robot/joint_limits message)
    joint_angles,       \* the limb's current joint angles (hardware)
    is_shutdown,        \* rospy.is_shutdown()
    moveit_group,       \* self._moveit_group
    scene_limit,        \* the planning scene of the validity service
    limb_writes,        \* how many commands were written to the limb
    gripper_log,        \* the commands issued to the gripper, in order
    sv_calls,           \* how many requests were sent to the validity service
    result              \* the last adapter call: its arguments, what it returned
                        \* or raised, and the calls it issued

vars == <<control_mode, initial_joint_pos, used_joints, joint_limits,
          joint_angles, is_shutdown, moveit_group, scene_limit,
          limb_writes, gripper_log, sv_calls, result>>

config == <<control_mode, initial_joint_pos, used_joints, joint_limits,
            moveit_group, scene_limit>>

hardware == <<limb_writes, gripper_log>>

\* ------------------------------------------------------------ bounds
MaxLimbWrites == 2
MaxGripperCmds == 2
MaxSvCalls == 2

\* --------------------------------------------------------- constants
NumLimbJoints == 7
PositionActionBound == 200
DampDen == 10
GripperLow == 0
GripperHigh == 100

LimbJoints == 0 .. (NumLimbJoints - 1)

\* the key order of the dict returned by Limb.joint_angles()
LimbJointOrder == [i \in 1 .. NumLimbJoints |-> i - 1]

joint_position_space ==
    [low  |-> <<-30503, -38095, -30426, -30439, -29761, -29761, -47124>>,
     high |-> << 30503,  22736,  30426,  30439,  29761,  29761,  47124>>]

\* ----------------------------------------------------------- helpers
Range(s) == {s[i] : i \in 1 .. Len(s)}

IndexOf(s, x) == CHOOSE i \in 1 .. Len(s) : s[i] = x

Min(a, b) == IF a < b THEN a ELSE b

Max(a, b) == IF a > b THEN a ELSE b

\* np.clip on scalars
Clip(x, lo, hi) == Min(Max(x, lo), hi)

\* x * 0.1 in fixed point
Damp(x) == x \div DampDen

Full(n, v) == [i \in 1 .. n |-> v]

Neg(s) == [i \in 1 .. Len(s) |-> 0 - s[i]]

Box(low, high) == [low |-> low, high |-> high]

Returned(v) == [status |-> "ok", value |-> v]

Raised(e, v) == [status |-> e, value |-> v]

\* np.clip(a, low, high) on vectors, with numpy's broadcasting of length 1
np_clip(a, low, high) ==
    LET n == Len(a)
        m == Len(low)
    IN  IF n = m
          THEN Returned([i \in 1 .. n |-> Clip(a[i], low[i], high[i])])
        ELSE IF n = 1
          THEN Returned([i \in 1 .. m |-> Clip(a[1], low[i], high[i])])
        ELSE IF m = 1
          THEN Returned([i \in 1 .. n |-> Clip(a[i], low[1], high[1])])
        ELSE Raised("ValueError: operands could not be broadcast", <<>>)

\* ------------------------------------------------------ action_space
\* The loop of action_space from its i-th joint on.  bound says whether
\* lower_bounds and upper_bounds have been assigned: the code never assigns
\* them before it reads them.
RECURSIVE action_space_loop(_, _, _, _)
action_space_loop(i, bound, lower_bounds, upper_bounds) ==
    IF i > Len(used_joints)
      THEN IF bound
             THEN Returned(Box(lower_bounds \o <<GripperLow>>,
                               upper_bounds \o <<GripperHigh>>))
             ELSE Raised("UnboundLocalError", Box(<<>>, <<>>))
    ELSE IF used_joints[i] \notin Range(joint_limits.joint_names)
      THEN Raised("ValueError: not in list", Box(<<>>, <<>>))
    ELSE LET joint_idx == IndexOf(joint_limits.joint_names, used_joints[i])
         IN  IF control_mode = "position"
               THEN Returned(Box(Full(NumLimbJoints, 0 - PositionActionBound),
                                 Full(NumLimbJoints, PositionActionBound)))
             ELSE IF control_mode = "velocity"
               THEN IF bound
                      THEN LET velocity_limit == <<Damp(joint_limits.velocity[joint_idx])>>
                           IN  action_space_loop(i + 1, TRUE,
                                                 lower_bounds \o Neg(velocity_limit),
                                                 upper_bounds \o velocity_limit)
                      ELSE Raised("UnboundLocalError", Box(<<>>, <<>>))
             ELSE IF control_mode = "effort"
               THEN IF bound
                      THEN LET effort_limit == <<joint_limits.effort[joint_idx]>>
                           IN  action_space_loop(i + 1, TRUE,
                                                 lower_bounds \o Neg(effort_limit),
                                                 upper_bounds \o effort_limit)
                      ELSE Raised("UnboundLocalError", Box(<<>>, <<>>))
             ELSE Raised("ValueError: Control mode is not known", Box(<<>>, <<>>))

action_space == action_space_loop(1, FALSE, <<>>, <<>>)

\* ------------------------------------------------- validity service
RobotState(names, positions) == [name |-> names, position |-> positions]

\* StateValidity.get_state_validity: the verdict of the external service on
\* a robot state; here a state is valid iff every joint is inside the free
\* zone of the planning scene.
get_state_validity(rs, group) ==
    \A i \in 1 .. Len(rs.position) :
        (0 - scene_limit) < rs.position[i] /\ rs.position[i] < scene_limit

\* the outcome of a call: what it returns or raises, and the calls it issued
Outcome(status, value, limb, gripper, sv) ==
    [status |-> status, value |-> value, limb |-> limb, gripper |-> gripper, sv |-> sv]

safety_check ==
    LET current_joint_angles == joint_angles
        rs == RobotState(LimbJointOrder,
                         [i \in 1 .. NumLimbJoints |-> current_joint_angles[LimbJointOrder[i]]])
        req == [rs |-> rs, group |-> moveit_group]
    IN  Outcome("ok", get_state_validity(rs, moveit_group), <<>>, <<>>, <<req>>)

\* joint_angles is a dict: order is its key order, angles its values
\* safety_predict that packages the current joint angles, as safety_check does
safety_predict_current(order, angles) == safety_check

safety_predict(order, angles) ==
    LET rs == RobotState(order, [i \in 1 .. Len(order) |-> angles[order[i]]])
        req == [rs |-> rs, group |-> moveit_group]
    IN  Outcome("ok", get_state_validity(rs, moveit_group), <<>>, <<>>, <<req>>)

\* ------------------------------------------------------ send_command
LimbCommand(kind, cmd) == [kind |-> kind, cmd |-> cmd]

\* The damped absolute position command, which asks the validity service
\* before it writes.  No method of the class calls it.
set_limb_joint_positions(joint_angle_cmds) ==
    LET current_joint_angles == joint_angles
        cmds == [joint \in DOMAIN joint_angle_cmds |->
                    current_joint_angles[joint]
                      + Damp(joint_angle_cmds[joint] - current_joint_angles[joint])]
        order == [i \in 1 .. NumLimbJoints |-> LimbJointOrder[i]]
        keys == SelectSeq(order, LAMBDA j : j \in DOMAIN cmds)
        predicted == safety_predict(keys, cmds)
    IN  Outcome("ok", <<>>,
                IF predicted.value THEN <<LimbCommand("position", cmds)>> ELSE <<>>,
                <<>>, predicted.sv)

\* the incremental command without the clip to the static joint bounds
send_incremental_position_command_unclipped(jpos) ==
    IF \E j \in LimbJoints : j \notin DOMAIN jpos
      THEN Outcome("KeyError", <<>>, <<>>, <<>>, <<>>)
      ELSE Outcome("ok", <<>>,
                   <<LimbCommand("position", [j \in LimbJoints |-> joint_angles[j] + jpos[j]])>>,
                   <<>>, <<>>)

\* the incremental command routed through the damped, safety-checked write
send_incremental_position_command_checked(jpos) ==
    IF \E j \in LimbJoints : j \notin DOMAIN jpos
      THEN Outcome("KeyError", <<>>, <<>>, <<>>, <<>>)
      ELSE set_limb_joint_positions([j \in LimbJoints |-> joint_angles[j] + jpos[j]])

send_incremental_position_command(jpos) ==
    LET current_joint_angles == joint_angles
        joint_limits_box == joint_position_space
    IN  IF \E j \in LimbJoints : j \notin DOMAIN jpos
          THEN Outcome("KeyError", <<>>, <<>>, <<>>, <<>>)
          ELSE LET commands == [j \in LimbJoints |->
                                   Clip(current_joint_angles[j] + jpos[j],
                                        joint_limits_box.low[j + 1],
                                        joint_limits_box.high[j + 1])]
               IN  Outcome("ok", <<>>, <<LimbCommand("position", commands)>>, <<>>, <<>>)

set_limb_joint_velocities(joint_angle_cmds) ==
    Outcome("ok", <<>>, <<LimbCommand("velocity", joint_angle_cmds)>>, <<>>, <<>>)

set_limb_joint_torques(joint_angle_cmds) ==
    Outcome("ok", <<>>, <<LimbCommand("torque", joint_angle_cmds)>>, <<>>, <<>>)

\* Gripper.open()
GripperOpen == [kind |-> "open"]

\* Gripper.set_position(position)
GripperSetPosition(position) == [kind |-> "set_position", position |-> position]

\* send_command that ends by commanding the gripper with the last element of
\* the clipped action vector
send_command_gripper(commands) ==
    LET space == action_space
        clipped == np_clip(commands, space.value.low, space.value.high)
    IN  IF space.status = "ok" /\ clipped.status = "ok" /\ control_mode = "position"
           /\ Len(used_joints) <= Len(clipped.value)
          THEN LET sent == send_incremental_position_command(
                              [joint \in Range(used_joints) |->
                                  clipped.value[IndexOf(used_joints, joint)]])
               IN  IF sent.status = "ok"
                     THEN [sent EXCEPT !.gripper =
                              <<GripperSetPosition(clipped.value[Len(clipped.value)])>>]
                     ELSE sent
          ELSE Outcome("raised", <<>>, <<>>, <<>>, <<>>)

send_command(commands) ==
    LET space == action_space
    IN  IF space.status # "ok"
          THEN Outcome(space.status, <<>>, <<>>, <<>>, <<>>)
        ELSE LET clipped == np_clip(commands, space.value.low, space.value.high)
             IN  IF clipped.status # "ok"
                   THEN Outcome(clipped.status, <<>>, <<>>, <<>>, <<>>)
                 ELSE IF Len(used_joints) > Len(clipped.value)
                   THEN Outcome("IndexError", <<>>, <<>>, <<>>, <<>>)
                 ELSE LET joint_commands ==
                              [joint \in Range(used_joints) |->
                                  clipped.value[IndexOf(used_joints, joint)]]
                      IN  IF control_mode = "position"
                            THEN send_incremental_position_command(joint_commands)
                          ELSE IF control_mode = "velocity"
                            THEN set_limb_joint_velocities(joint_commands)
                          ELSE IF control_mode = "effort"
                            THEN set_limb_joint_torques(joint_commands)
                          ELSE Outcome("ok", <<>>, <<>>, <<>>, <<>>)

\* ------------------------------------------------------------- reset
DictOf(pairs) == [j \in {pairs[i][1] : i \in 1 .. Len(pairs)} |->
                     pairs[CHOOSE i \in 1 .. Len(pairs) : pairs[i][1] = j][2]]

\* the move to the start position without the shutdown test
move_to_start_position_unguarded ==
    Outcome("ok", <<>>,
            <<LimbCommand("move_to", DictOf(initial_joint_pos))>>,
            <<GripperOpen>>, <<>>)

move_to_start_position ==
    IF is_shutdown
      THEN Outcome("ok", <<>>, <<>>, <<>>, <<>>)
      ELSE Outcome("ok", <<>>,
                   <<LimbCommand("move_to", DictOf(initial_joint_pos))>>,
                   <<GripperOpen>>, <<>>)

reset == move_to_start_position

\* --------------------------------------------------- get_observation
\* what the limb reports besides its joint angles
endpoint_pose == [position |-> <<11, 12, 13>>, orientation |-> <<21, 22, 23, 24>>]

endpoint_velocity == [linear |-> <<31, 32, 33>>, angular |-> <<41, 42, 43>>]

endpoint_effort == [force |-> <<51, 52, 53>>, torque |-> <<61, 62, 63>>]

joint_velocities == [j \in LimbJoints |-> 70 + j]

joint_efforts == [j \in LimbJoints |-> 80 + j]

\* list(d.values()) of a dict of the limb
Values(d) == [i \in 1 .. NumLimbJoints |-> d[LimbJointOrder[i]]]

get_observation ==
    LET gripper_pos == endpoint_pose.position
        gripper_ori == endpoint_pose.orientation
        gripper_lvel == endpoint_velocity.linear
        gripper_avel == endpoint_velocity.angular
        gripper_force == endpoint_effort.force
        gripper_torque == endpoint_effort.torque
        robot_joint_angles == Values(joint_angles)
        robot_joint_velocities == Values(joint_velocities)
        robot_joint_efforts == Values(joint_efforts)
        obs == gripper_pos \o gripper_ori \o gripper_lvel \o gripper_avel
                 \o gripper_force \o gripper_torque \o robot_joint_angles
                 \o robot_joint_velocities \o robot_joint_efforts
    IN  Outcome("ok", obs, <<>>, <<>>, <<>>)

\* ============================================================ claims
\* what the claims speak of
Element(commands, i) == IF Len(commands) = 1 THEN commands[1] ELSE commands[i]

\* the commanded delta of the i-th controlled joint: the input clipped to
\* the position action space
CommandedDelta(commands, i) ==
    Clip(Element(commands, i), 0 - PositionActionBound, PositionActionBound)

StaticLow(j) == joint_position_space.low[j + 1]

StaticHigh(j) == joint_position_space.high[j + 1]

PositionWritten(r) ==
    /\ r.op = "send_command"
    /\ Len(r.limb) = 1
    /\ r.limb[1].kind = "position"

\* ------------------------------------------------ inputs of the model
ControlModes == {"position", "velocity", "effort", "impedance"}

SupportedModes == {"position", "velocity", "effort"}

Reversed(s) == [i \in 1 .. Len(s) |-> s[Len(s) + 1 - i]]

\* the key orders of initial_joint_pos: every limb joint (in two orders), a
\* strict subset of the limb's joints, and no joint at all
JointOrders == {LimbJointOrder, Reversed(LimbJointOrder), <<5, 2>>, <<>>}

InitialJointPositions == {[i \in 1 .. Len(o) |-> <<o[i], 0>>] : o \in JointOrders}

\* the /robot/joint_limits message
JointLimitsMessages ==
    <<[joint_names |-> LimbJointOrder,
      velocity |-> <<17400, 13280, 19570, 19570, 34850, 34850, 45450>>,
      effort |-> <<800, 800, 400, 400, 90, 90, 90>>],
     [joint_names |-> Reversed(LimbJointOrder),
      velocity |-> <<45450, 34850, 34850, 19570, 19570, 13280, 17400>>,
      effort |-> <<90, 90, 90, 400, 400, 800, 800>>]>>

\* what the adapter is built in: the joint limits message, the planning group
\* and the planning scene (a narrow free zone, or one that holds every joint
\* state)
Environments ==
    {[limits |-> JointLimitsMessages[1], group |-> "right_arm", scene |-> 150],
     [limits |-> JointLimitsMessages[2], group |-> "right_hand", scene |-> 50000]}

\* joint states of the limb: at rest, near the upper bounds, near the lower
\* bounds, and mixed
AngleProfiles ==
    {[j \in LimbJoints |-> 0],
     [j \in LimbJoints |-> joint_position_space.high[j + 1] - 100],
     [j \in LimbJoints |-> joint_position_space.low[j + 1] + 100],
     [j \in LimbJoints |-> IF j % 2 = 0 THEN joint_position_space.high[j + 1] - 50
                                         ELSE 100 * j]}

\* action vectors: base, base + step, base + 2 * step, ...
Ramp(len, base, step) == [i \in 1 .. len |-> base + (i - 1) * step]

CommandVectors ==
    {Ramp(NumLimbJoints, -300, 100), Ramp(NumLimbJoints, 20, 10),
     Ramp(NumLimbJoints + 1, -300, 100), Ramp(1, 150, 0), Ramp(2, 50, 50)}

\* joint_angles arguments of safety_predict, each a key order and a dict
PredictInputs ==
    {<<LimbJointOrder, a>> : a \in AngleProfiles}
      \cup {<<(<<5, 2>>), [j \in {2, 5} |-> a[j]]>> : a \in AngleProfiles}

NoCall == [op |-> "none", args |-> <<>>, status |-> "ok", value |-> <<>>,
           limb |-> <<>>, gripper |-> <<>>, sv |-> <<>>]

\* --------------------------------------------------- the state machine
\* __init__: the adapter right after construction
Init ==
    /\ control_mode \in ControlModes
    /\ initial_joint_pos \in InitialJointPositions
    /\ used_joints = [i \in 1 .. Len(initial_joint_pos) |-> initial_joint_pos[i][1]]
    /\ \E env \in Environments :
          /\ joint_limits = env.limits
          /\ moveit_group = env.group
          /\ scene_limit = env.scene
    /\ joint_angles \in AngleProfiles
    /\ is_shutdown = FALSE
    /\ limb_writes = 0
    /\ gripper_log = <<>>
    /\ sv_calls = 0
    /\ result = NoCall

\* a call of the adapter: its outcome is recorded, the commands it issued
\* reach the limb and the gripper, its requests reach the validity service
Call(op, args, out) ==
    /\ limb_writes + Len(out.limb) <= MaxLimbWrites
    /\ Len(gripper_log) + Len(out.gripper) <= MaxGripperCmds
    /\ sv_calls + Len(out.sv) <= MaxSvCalls
    /\ result' = [op |-> op, args |-> args, status |-> out.status, value |-> out.value,
                  limb |-> out.limb, gripper |-> out.gripper, sv |-> out.sv]
    /\ limb_writes' = limb_writes + Len(out.limb)
    /\ gripper_log' = gripper_log \o out.gripper
    /\ sv_calls' = sv_calls + Len(out.sv)
    /\ UNCHANGED <<config, joint_angles, is_shutdown>>

SendCommand(commands) == Call("send_command", commands, send_command(commands))

GetObservation == Call("get_observation", <<>>, get_observation)

SafetyCheck == Call("safety_check", <<>>, safety_check)

SafetyPredict(order, angles) ==
    Call("safety_predict", <<order, angles>>, safety_predict(order, angles))

Reset == Call("reset", <<>>, reset)

ActionSpace ==
    Call("action_space", <<>>,
         Outcome(action_space.status, action_space.value, <<>>, <<>>, <<>>))

\* the arm moves (a command takes effect, or something pushes it)
LimbMoves ==
    /\ \E a \in AngleProfiles : joint_angles' = a
    /\ joint_angles' # joint_angles
    /\ UNCHANGED <<config, is_shutdown, hardware, sv_calls, result>>

\* the ROS node shuts down, for good
Shutdown ==
    /\ ~is_shutdown
    /\ is_shutdown' = TRUE
    /\ UNCHANGED <<config, joint_angles, hardware, sv_calls, result>>

SendCommandStep == \E commands \in CommandVectors : SendCommand(commands)

SafetyPredictStep == \E p \in PredictInputs : SafetyPredict(p[1], p[2])

Next ==
    \/ SendCommandStep
    \/ GetObservation
    \/ SafetyCheck
    \/ SafetyPredictStep
    \/ Reset
    \/ ActionSpace
    \/ LimbMoves
    \/ Shutdown

Spec == Init /\ [][Next]_vars

\* the step is the call send_command(commands)
Sent(commands) == result'.op = "send_command" /\ SendCommand(commands)

\* the step is a call of the method op, which is the action A
Called(op, A) == result'.op = op /\ A

DocumentedBound(i) ==
    LET joint_idx == IndexOf(joint_limits.joint_names, used_joints[i])
    IN  IF control_mode = "position" THEN PositionActionBound
        ELSE IF control_mode = "velocity" THEN Damp(joint_limits.velocity[joint_idx])
        ELSE joint_limits.effort[joint_idx]

\* C2: in velocity or effort mode send_command completes and passes to the
\* velocity (torque) write call, for each controlled joint, the input value
\* clipped to the action-space bounds.  Stated for the adapters that control
\* at least one joint and the action vectors that hold a value for each.
C2_VelocityEffortPassThrough ==
    (result.op = "send_command" /\ control_mode \in {"velocity", "effort"}
       /\ used_joints # <<>> /\ Len(result.args) >= Len(used_joints))
      => /\ result.status = "ok"
         /\ Len(result.limb) = 1
         /\ result.limb[1].kind = (IF control_mode = "velocity" THEN "velocity" ELSE "torque")
         /\ DOMAIN result.limb[1].cmd = Range(used_joints)
         /\ \A i \in 1 .. Len(used_joints) :
              result.limb[1].cmd[used_joints[i]]
                = Clip(result.args[i], 0 - DocumentedBound(i), DocumentedBound(i))

\* ------------------------------------------------------------------ C3
\* C3: in every supported mode action_space returns the documented bounds:
\* -0.02/+0.02 per joint in position mode, minus/plus 0.1 times the velocity
\* limit of each controlled joint in velocity mode, minus/plus the effort
\* limit of each controlled joint in effort mode.  Stated for the adapters
\* that control at least one joint.
C3_ActionSpaceDocumented ==
    (result.op = "action_space" /\ control_mode \in SupportedModes
       /\ used_joints # <<>>)
      => /\ result.status = "ok"
         /\ Len(result.value.low) >= Len(used_joints)
         /\ Len(result.value.high) >= Len(used_joints)
         /\ \A i \in 1 .. Len(used_joints) :
              /\ result.value.low[i] = 0 - DocumentedBound(i)
              /\ result.value.high[i] = DocumentedBound(i)

\* ------------------------------------------------------------------ C4
\* C4: with an unsupported control mode, whatever the controlled joints,
\* every request of action_space raises the unknown-control-mode error.
C4_UnknownModeRaises ==
    (result.op = "action_space" /\ control_mode \notin SupportedModes)
      => result.status = "ValueError: Control mode is not known"

\* ------------------------------------------------------------------ C5
\* the readings d of the controlled joints
Controlled(d) == {d[j] : j \in Range(used_joints)}

\* the values of the vector v at the places first .. last
Block(v, first, last) == {v[i] : i \in first .. last}

\* C5: get_observation returns 3+4+3+3+3+3+N+N+N values for N controlled
\* joints: gripper position, orientation, linear velocity, angular velocity,
\* force, torque, then the angles, the velocities and the efforts of the
\* controlled joints.  Stated for the adapters that control at least one
\* joint.
C5_ObservationLayout ==
    [][(used_joints # <<>> /\ Called("get_observation", GetObservation))
         => LET N == Len(used_joints)
                v == result'.value
            IN  /\ Len(v) = 3 + 4 + 3 + 3 + 3 + 3 + N + N + N
                /\ SubSeq(v, 1, 19) =
                     endpoint_pose.position \o endpoint_pose.orientation
                       \o endpoint_velocity.linear \o endpoint_velocity.angular
                       \o endpoint_effort.force \o endpoint_effort.torque
                /\ Block(v, 20, 19 + N) = Controlled(joint_angles)
                /\ Block(v, 20 + N, 19 + 2 * N) = Controlled(joint_velocities)
                /\ Block(v, 20 + 2 * N, 19 + 3 * N) = Controlled(joint_efforts)]_vars

\* ------------------------------------------------------------------ C6
\* the request that carries the joint state d, keys in the given order
RequestFor(order, d) ==
    [rs |-> RobotState(order, [i \in 1 .. Len(order) |-> d[order[i]]]),
     group |-> moveit_group]

\* C6: safety_check sends the current joint angles, safety_predict the given
\* ones, both with the planning group of the constructor, and each returns
\* the verdict of the validity service on the request it sent.
C6_VerdictUnmodified ==
    [][/\ Called("safety_check", SafetyCheck)
            => /\ result'.status = "ok"
               /\ result'.sv = <<RequestFor(LimbJointOrder, joint_angles)>>
               /\ result'.value = get_state_validity(result'.sv[1].rs, result'.sv[1].group)
       /\ \A p \in PredictInputs :
            Called("safety_predict", SafetyPredict(p[1], p[2]))
              => /\ result'.status = "ok"
                 /\ result'.sv = <<RequestFor(p[1], p[2])>>
                 /\ result'.value = get_state_validity(result'.sv[1].rs, result'.sv[1].group)
      ]_vars

\* safety_predict returned an invalid verdict for a joint state while the
\* current joint state is one the service judges valid
C6_Witness ==
    /\ result.op = "safety_predict"
    /\ result.value = FALSE
    /\ Len(result.sv) = 1
    /\ ~get_state_validity(result.sv[1].rs, moveit_group)
    /\ get_state_validity(RequestFor(LimbJointOrder, joint_angles).rs, moveit_group)

\* ------------------------------------------------------------------ C7
\* C7: reset during shutdown returns normally and issues no hardware
\* command, neither an arm move nor a gripper open.
C7_ResetNoOpOnShutdown ==
    [][(is_shutdown /\ Called("reset", Reset))
         => /\ result'.status = "ok"
            /\ result'.limb = <<>>
            /\ result'.gripper = <<>>
            /\ UNCHANGED hardware]_vars

\* reset was called during shutdown after an earlier reset had acted
C7_Witness ==
    /\ is_shutdown
    /\ result.op = "reset"
    /\ result.limb = <<>>
    /\ gripper_log = <<GripperOpen>>
    /\ limb_writes >= 1

\* ------------------------------------------------------------------ C8
\* the value send_command derives for a joint from an action element
DerivedValue(j, x) ==
    LET i == IndexOf(used_joints, j)
        a == Clip(x, 0 - DocumentedBound(i), DocumentedBound(i))
    IN  IF control_mode = "position"
          THEN Clip(joint_angles[j] + a, StaticLow(j), StaticHigh(j))
          ELSE a

\* C8: for every set of controlled joints the command written has exactly
\* the controlled joints as keys, and the value of the i-th controlled joint
\* is derived from the i-th action element.  Stated for position mode, the
\* adapters that control at least one joint and the action vectors that fit
\* the position action space; velocity and effort mode are C2's.
C8_KeysAreControlledJoints ==
    [][\A commands \in CommandVectors :
         (control_mode = "position" /\ used_joints # <<>> /\ Sent(commands)
            /\ Len(commands) = NumLimbJoints)
           => /\ result'.status = "ok"
              /\ Len(result'.limb) = 1
              /\ DOMAIN result'.limb[1].cmd = Range(used_joints)
              /\ \A i \in 1 .. Len(used_joints) :
                   result'.limb[1].cmd[used_joints[i]]
                     = DerivedValue(used_joints[i], commands[i])]_vars

\* ------------------------------------------------------------------ C9
\* C9: send_command never queries the validity service, in any mode.
C9_NoValidityQuery ==
    [][\A commands \in CommandVectors :
         Sent(commands) => (result'.sv = <<>> /\ sv_calls' = sv_calls)]_vars

\* a position command was written whose target joint state the validity
\* service judges invalid
C9_Witness ==
    /\ PositionWritten(result)
    /\ result.sv = <<>>
    /\ sv_calls = 0
    /\ ~get_state_validity(RequestFor(LimbJointOrder, result.limb[1].cmd).rs, moveit_group)

====
